---- MODULE Spec2Model ----
(***************************************************************************)
(* Model of the attendance report of Jimmel21/Attendance-Report:           *)
(* AttendanceReport.py (the hand-rolled pipeline) and                      *)
(* AttendanceReport_alternate.py (the same pipeline on data frames).       *)
(*                                                                         *)
(* Representation.  A date string "YYYY-MM-DD" is the tuple <<y, m, d>> of *)
(* its three fields; a clock string "HH:MM:SS" is <<h, m, s>>; JSON null   *)
(* is the empty tuple.  Durations are whole seconds (the code divides by   *)
(* 3600 to get hours); max_temp is in tenths of a degree, so 40.0 is 400.  *)
(* A Python call either returns or raises: Returned(v) and Raised(e).      *)
(***************************************************************************)
EXTENDS Integers, Sequences, FiniteSets, TLC

VARIABLES
    pc,                 \* position in identify_delinquent_employees / the caller
    weather_data,       \* local of identify_delinquent_employees, unbound until fetched
    events_data,        \* local of identify_delinquent_employees, unbound until fetched
    employee_data,      \* the roster loaded from the employee file
    attendance_data,    \* the rows loaded from the attendance file
    idx,                \* index of the next roster entry of the for loop
    wayward_employees,  \* the list being built
    exception,          \* the exception that ended the run, "none" otherwise
    attempted,          \* record ids whose loop iteration was entered
    weather_calls,      \* number of GETs issued to the weather endpoint
    events_calls,       \* number of GETs issued to the events endpoint
    api_error_logged,   \* the except clause printed 'API error: '
    arg_country,        \* argument of a direct call of a helper method
    arg_poor,           \* argument of a direct call of a helper method
    calls               \* results of the direct calls, in call order

vars == <<pc, weather_data, events_data, employee_data, attendance_data, idx,
          wayward_employees, exception, attempted, weather_calls, events_calls,
          api_error_logged, arg_country, arg_poor, calls>>

(***************************************************************************)
(* Bounds of the model.                                                    *)
(***************************************************************************)
MaxRows == 2
MaxRoster == 2
MaxEvents == 2
MaxWeather == 2
MaxRuns == 2

(***************************************************************************)
(* Python values.                                                          *)
(***************************************************************************)
None == <<>>

Returned(v) == [exc |-> "none", value |-> v]

Raised(e) == [exc |-> e, value |-> <<>>]

Range(s) == {s[i] : i \in 1..Len(s)}

\* The orders in which a Python set may be iterated: every permutation.
RECURSIVE Orders(_)
Orders(S) ==
    IF S = {} THEN {<<>>}
    ELSE UNION {{<<x>> \o order : order \in Orders(S \ {x})} : x \in S}

TargetYear == 2023

(***************************************************************************)
(* datetime: proleptic Gregorian ordinals, ISO weeks, time comparison.     *)
(***************************************************************************)
IsLeap(y) == y % 4 = 0 /\ (y % 100 # 0 \/ y % 400 = 0)

DaysInMonth(y, m) ==
    IF m = 2 THEN (IF IsLeap(y) THEN 29 ELSE 28)
    ELSE IF m \in {4, 6, 9, 11} THEN 30 ELSE 31

RECURSIVE DaysBeforeMonth(_, _)
DaysBeforeMonth(y, m) ==
    IF m = 1 THEN 0 ELSE DaysBeforeMonth(y, m - 1) + DaysInMonth(y, m - 1)

DaysBeforeYear(y) ==
    (y - 1) * 365 + ((y - 1) \div 4) - ((y - 1) \div 100) + ((y - 1) \div 400)

\* datetime.strptime(s, "%Y-%m-%d").date(), as the day number date arithmetic uses
ToOrdinal(date) == DaysBeforeYear(date[1]) + DaysBeforeMonth(date[1], date[2]) + date[3]

IsoWeek1Monday(y) ==
    LET firstday == ToOrdinal(<<y, 1, 1>>)
        firstweekday == (firstday + 6) % 7
        week1monday == firstday - firstweekday
    IN  IF firstweekday > 3 THEN week1monday + 7 ELSE week1monday

\* date.isocalendar().week
IsoWeek(date) ==
    LET today == ToOrdinal(date)
        week == (today - IsoWeek1Monday(date[1])) \div 7
    IN  IF today < IsoWeek1Monday(date[1])
        THEN ((today - IsoWeek1Monday(date[1] - 1)) \div 7) + 1
        ELSE IF week >= 52 /\ today >= IsoWeek1Monday(date[1] + 1) THEN 1
        ELSE week + 1

\* mutant of TimeLess: the boundary value compares as less
TimeLessOrEqual(a, b) == a = b \/ a[1] < b[1] \/ (a[1] = b[1] /\ a[2] < b[2])
                            \/ (a[1] = b[1] /\ a[2] = b[2] /\ a[3] < b[3])

\* datetime.time ordering: by hour, then minute, then second
TimeLess(a, b) ==
    \/ a[1] < b[1]
    \/ a[1] = b[1] /\ a[2] < b[2]
    \/ a[1] = b[1] /\ a[2] = b[2] /\ a[3] < b[3]

ToSeconds(t) == t[1] * 3600 + t[2] * 60 + t[3]

(***************************************************************************)
(* AttendanceReport.py: the helper methods.                                *)
(***************************************************************************)
check_if_date_is_in_year(date_val, year) == date_val[1] = year

RECURSIVE remove_duplicates_from(_, _, _)
remove_duplicates_from(event_data, unique_dates, unique_events) ==
    IF event_data = <<>> THEN unique_events
    ELSE LET event == Head(event_data)
         IN  IF event.event_date \notin unique_dates
             THEN remove_duplicates_from(Tail(event_data),
                      unique_dates \cup {event.event_date}, Append(unique_events, event))
             ELSE remove_duplicates_from(Tail(event_data), unique_dates, unique_events)

\* mutant of remove_duplicate_events: entries differing in name are both kept
RECURSIVE remove_duplicates_by_name_from(_, _, _)
remove_duplicates_by_name_from(event_data, unique_dates, unique_events) ==
    IF event_data = <<>> THEN unique_events
    ELSE LET event == Head(event_data)
             key == <<event.event_date, event.event_name>>
         IN  IF key \notin unique_dates
             THEN remove_duplicates_by_name_from(Tail(event_data),
                      unique_dates \cup {key}, Append(unique_events, event))
             ELSE remove_duplicates_by_name_from(Tail(event_data), unique_dates, unique_events)

remove_duplicate_events_by_name(event_data) ==
    remove_duplicates_by_name_from(event_data, {}, <<>>)

remove_duplicate_events(event_data) == remove_duplicates_from(event_data, {}, <<>>)

\* (stop - start).total_seconds(), before the division by 3600
calculate_total_hours(start_time, stop_time) == ToSeconds(stop_time) - ToSeconds(start_time)

RowHours(attendance) ==
    IF attendance.clock_in # None /\ attendance.clock_out # None
    THEN calculate_total_hours(attendance.clock_in, attendance.clock_out)
    ELSE 0

\* the dictionary total_hours_per_week after the loop over attendance_data
RECURSIVE WeeklyTotals(_, _)
WeeklyTotals(attendance_data_, total_hours_per_week) ==
    IF attendance_data_ = <<>> THEN total_hours_per_week
    ELSE LET attendance == Head(attendance_data_)
             week_key == IsoWeek(attendance.date)
             before == IF week_key \in DOMAIN total_hours_per_week
                       THEN total_hours_per_week[week_key] ELSE 0
         IN  WeeklyTotals(Tail(attendance_data_),
                 [k \in DOMAIN total_hours_per_week \cup {week_key} |->
                     IF k = week_key THEN before + RowHours(attendance)
                     ELSE total_hours_per_week[k]])

RECURSIVE SumValues(_, _)
SumValues(f, keys) ==
    IF keys = {} THEN 0
    ELSE LET k == CHOOSE x \in keys : TRUE IN f[k] + SumValues(f, keys \ {k})

RECURSIVE Gcd(_, _)
Gcd(a, b) == IF b = 0 THEN a ELSE Gcd(b, a % b)

Abs(n) == IF n < 0 THEN -n ELSE n

\* the quotient num / den as a fraction in lowest terms
Quotient(num, den) ==
    LET g == Gcd(Abs(num), den) IN [num |-> num \div g, den |-> den \div g]

\* mutant of calculate_average_hours_per_week: divides by the number of rows
calculate_average_hours_per_row(attendance_data_) ==
    LET total_hours_per_week == WeeklyTotals(attendance_data_, <<>>)
        total_hours == SumValues(total_hours_per_week, DOMAIN total_hours_per_week)
    IN  IF Len(attendance_data_) = 0
        THEN Raised("ZeroDivisionError")
        ELSE Returned(Quotient(total_hours, Len(attendance_data_)))

calculate_average_hours_per_week(attendance_data_) ==
    LET total_hours_per_week == WeeklyTotals(attendance_data_, <<>>)
        total_hours == SumValues(total_hours_per_week, DOMAIN total_hours_per_week)
    IN  IF Cardinality(DOMAIN total_hours_per_week) = 0
        THEN Raised("ZeroDivisionError")
        ELSE Returned(Quotient(total_hours, Cardinality(DOMAIN total_hours_per_week)))

get_employee_attendance_data(record_id, employee_attendance_data, year) ==
    SelectSeq(employee_attendance_data,
        LAMBDA emp : emp.employee_record_id = record_id
                     /\ check_if_date_is_in_year(emp.date, year))

StartTime == <<8, 15, 0>>

EndTime == <<16, 0, 0>>

\* strptime(None, ...) raises TypeError
RECURSIVE check_times_from(_, _)
check_times_from(employee_attendance_data, delinquent_data) ==
    IF employee_attendance_data = <<>> THEN Returned(delinquent_data)
    ELSE LET attendance == Head(employee_attendance_data)
             rest == Tail(employee_attendance_data)
         IN  IF attendance.clock_in = None /\ attendance.clock_out = None
             THEN check_times_from(rest, Append(delinquent_data, attendance.date))
             ELSE IF attendance.clock_in = None \/ attendance.clock_out = None
             THEN Raised("TypeError")
             ELSE IF TimeLess(StartTime, attendance.clock_in)
                     \/ TimeLess(attendance.clock_out, EndTime)
             THEN check_times_from(rest, Append(delinquent_data, attendance.date))
             ELSE check_times_from(rest, delinquent_data)

check_employee_times(employee_attendance_data) ==
    check_times_from(employee_attendance_data, <<>>)

SevereConditions == {"hail", "thunderstorm", "blizzard", "hurricane"}

MaxTempLimit == 400

\* mutant of WeatherSet: the country of the weather row is not compared
WeatherSetAnyCountry(weather_data_, country) ==
    {weather.date : weather \in
        {w \in Range(weather_data_) :
            /\ check_if_date_is_in_year(w.date, 2023)
            /\ (w.condition \in SevereConditions \/ w.max_temp > MaxTempLimit)}}

\* weather_set of check_dates_against_events
WeatherSet(weather_data_, country) ==
    {weather.date : weather \in
        {w \in Range(weather_data_) :
            /\ w.country = country
            /\ check_if_date_is_in_year(w.date, 2023)
            /\ (w.condition \in SevereConditions \/ w.max_temp > MaxTempLimit)}}

\* event_set of check_dates_against_events: (event_date, event_name) pairs
EventSet(events_data_, country) ==
    {<<event.event_date, event.event_name>> : event \in
        {e \in Range(events_data_) :
            e.country = country /\ check_if_date_is_in_year(e.event_date, 2023)}}

\* no_weather_excuse of check_dates_against_events
NoWeatherExcuse(weather_data_, poor_employee_attendance_data, country) ==
    Range(poor_employee_attendance_data) \ WeatherSet(weather_data_, country)

\* mutant of InWindow: the day after is not matched
InWindowBefore(event_date, no_excuse_date) ==
    (ToOrdinal(event_date) - ToOrdinal(no_excuse_date)) \in {-1, 0}

\* difference in [timedelta(days=-1), timedelta(days=0), timedelta(days=1)]
InWindow(event_date, no_excuse_date) ==
    (ToOrdinal(event_date) - ToOrdinal(no_excuse_date)) \in {-1, 0, 1}

\* the inner loop over event_set for one no_excuse_date
EventReasonsFor(no_excuse_date, event_order, country) ==
    LET matched == SelectSeq(event_order, LAMBDA ev : InWindow(ev[1], no_excuse_date))
    IN  [i \in 1..Len(matched) |->
            [country |-> country, event_name |-> matched[i][2], event_date |-> matched[i][1]]]

\* event_reason_list before deduplication, for one iteration order of each set
RECURSIVE EventReasonList(_, _, _)
EventReasonList(date_order, event_order, country) ==
    IF Len(date_order) = 0 THEN <<>>
    ELSE EventReasonsFor(Head(date_order), event_order, country)
            \o EventReasonList(Tail(date_order), event_order, country)

\* The locals of one execution of check_dates_against_events.  The two loops
\* iterate over Python sets of strings, whose order is fixed by neither the
\* language nor the inputs (string hashing is seeded per process): every
\* order of no_weather_excuse and of event_set is a possible execution.
check_dates_against_events(weather_data_, events_data_, poor_employee_attendance_data, country) ==
    {[no_weather_excuse |-> NoWeatherExcuse(weather_data_, poor_employee_attendance_data, country),
      event_set |-> EventSet(events_data_, country),
      event_reason_list |-> EventReasonList(date_order, event_order, country),
      value |-> remove_duplicate_events(EventReasonList(date_order, event_order, country))] :
        date_order \in Orders(NoWeatherExcuse(weather_data_, poor_employee_attendance_data, country)),
        event_order \in Orders(EventSet(events_data_, country))}

(***************************************************************************)
(* Bounded inputs.                                                         *)
(***************************************************************************)
Bound(v) == [bound |-> TRUE, val |-> v]

Unbound == [bound |-> FALSE, val |-> <<>>]

RECURSIVE SetToSeq(_)
SetToSeq(S) ==
    IF S = {} THEN <<>>
    ELSE LET x == CHOOSE y \in S : TRUE IN <<x>> \o SetToSeq(S \ {x})

\* the lists of at most n distinct elements of the list pool, in pool order
Picks(pool, n) ==
    UNION {{[i \in 1..k |-> pool[f[i]]] :
                f \in {g \in [1..k -> 1..Len(pool)] : \A i \in 1..(k - 1) : g[i] < g[i + 1]}} :
           k \in 0..n}

\* the lists of at most n elements of S, in any order, repeats allowed
Lists(S, n) == UNION {[1..k -> S] : k \in 0..n}

AttendanceRow(id, date, clock_in, clock_out) ==
    [employee_record_id |-> id, date |-> date, clock_in |-> clock_in, clock_out |-> clock_out]

ClockIns == {None, <<7, 30, 0>>, <<8, 15, 0>>, <<8, 15, 1>>, <<9, 0, 0>>}

ClockOuts == {None, <<15, 59, 59>>, <<16, 0, 0>>, <<16, 30, 0>>, <<17, 0, 0>>}

\* one employee's rows for the first n days of March 2023, one row per day
TimesInputs ==
    UNION {{[i \in 1..n |-> AttendanceRow(1, <<2023, 3, i>>, f[i][1], f[i][2])] :
                f \in [1..n -> ClockIns \X ClockOuts]} : n \in 0..MaxRows}

\* direct calls leave the state of identify_delinquent_employees alone
Idle ==
    /\ employee_data = <<>>
    /\ idx = 1
    /\ wayward_employees = <<>>
    /\ exception = "none"
    /\ attempted = <<>>
    /\ weather_calls = 0
    /\ events_calls = 0
    /\ api_error_logged = FALSE
    /\ calls = <<>>

(***************************************************************************)
(* check_employee_times called on bounded attendance lists.                *)
(***************************************************************************)
InitTimes ==
    /\ Idle
    /\ pc = "call_times"
    /\ attendance_data \in TimesInputs
    /\ weather_data = Unbound
    /\ events_data = Unbound
    /\ arg_country = "US"
    /\ arg_poor = <<>>

CallCheckEmployeeTimes ==
    /\ pc = "call_times"
    /\ calls = <<>>
    /\ calls' = <<check_employee_times(attendance_data)>>
    /\ UNCHANGED <<pc, weather_data, events_data, employee_data, attendance_data, idx,
                   wayward_employees, exception, attempted, weather_calls, events_calls,
                   api_error_logged, arg_country, arg_poor>>

SpecTimes == InitTimes /\ [][CallCheckEmployeeTimes]_vars

\* the classification the attendance policy prescribes for one row
Late(row) == row.clock_in # None /\ ToSeconds(row.clock_in) > 8 * 3600 + 15 * 60

Early(row) == row.clock_out # None /\ ToSeconds(row.clock_out) < 16 * 3600

Absent(row) == row.clock_in = None /\ row.clock_out = None

HalfAbsent(row) == (row.clock_in = None) # (row.clock_out = None)

AverageDates == {<<2023, 1, 1>>, <<2023, 1, 2>>, <<2023, 1, 8>>, <<2023, 12, 31>>}

AverageRows ==
    {AttendanceRow(1, d, i, o) :
        d \in AverageDates,
        i \in {None, <<8, 0, 0>>},
        o \in {None, <<16, 0, 0>>, <<17, 45, 0>>}}

InitAverage ==
    /\ Idle
    /\ pc = "call_average"
    /\ attendance_data \in Lists(AverageRows, MaxRows)
    /\ weather_data = Unbound
    /\ events_data = Unbound
    /\ arg_country = "US"
    /\ arg_poor = <<>>

CallAverage ==
    /\ pc = "call_average"
    /\ calls = <<>>
    /\ calls' = <<calculate_average_hours_per_week(attendance_data)>>
    /\ UNCHANGED <<pc, weather_data, events_data, employee_data, attendance_data, idx,
                   wayward_employees, exception, attempted, weather_calls, events_calls,
                   api_error_logged, arg_country, arg_poor>>

SpecAverage == InitAverage /\ [][CallAverage]_vars

\* ISO 8601 week numbers of the dates of AverageDates, from the calendar
CalendarWeek(date) ==
    CASE date = <<2023, 1, 1>> -> 52
      [] date = <<2023, 1, 2>> -> 1
      [] date = <<2023, 1, 8>> -> 1
      [] date = <<2023, 12, 31>> -> 52

\* seconds between clock_in and clock_out of a row, 0 when either is absent
RowDuration(row) ==
    IF row.clock_in = None \/ row.clock_out = None THEN 0
    ELSE (row.clock_out[1] - row.clock_in[1]) * 3600
         + (row.clock_out[2] - row.clock_in[2]) * 60
         + (row.clock_out[3] - row.clock_in[3])

RECURSIVE DurationOfFirst(_, _)
DurationOfFirst(rows, n) ==
    IF n = 0 THEN 0 ELSE RowDuration(rows[n]) + DurationOfFirst(rows, n - 1)

EventRow(country, event_date, event_name) ==
    [country |-> country, event_date |-> event_date, event_name |-> event_name]

WeatherRow(country, date, condition, max_temp) ==
    [country |-> country, date |-> date, condition |-> condition, max_temp |-> max_temp]

CallCheckDates ==
    /\ pc = "call_dates"
    /\ Len(calls) < MaxRuns
    /\ \E execution \in check_dates_against_events(weather_data.val, events_data.val,
                                                    arg_poor, arg_country) :
          calls' = Append(calls, execution)
    /\ UNCHANGED <<pc, weather_data, events_data, employee_data, attendance_data, idx,
                   wayward_employees, exception, attempted, weather_calls, events_calls,
                   api_error_logged, arg_country, arg_poor>>

\* runs of consecutive calendar days, written out from the calendar
CalendarRuns ==
    {<< <<2022, 12, 30>>, <<2022, 12, 31>>, <<2023, 1, 1>>, <<2023, 1, 2>>, <<2023, 1, 3>> >>,
     << <<2023, 2, 27>>, <<2023, 2, 28>>, <<2023, 3, 1>>, <<2023, 3, 2>>, <<2023, 3, 3>> >>,
     << <<2023, 12, 29>>, <<2023, 12, 30>>, <<2023, 12, 31>>, <<2024, 1, 1>>, <<2024, 1, 2>> >>,
     << <<2023, 7, 10>> >>,
     << <<2023, 7, 20>> >>}

\* date a is the day before, the day of, or the day after date b
Adjacent(a, b) ==
    \E run \in CalendarRuns : \E i, j \in 1..Len(run) :
        run[i] = a /\ run[j] = b /\ i - j \in {-1, 0, 1}

\* a severe-weather row of the employee's country on date D
Excused(D) ==
    \E i \in 1..Len(weather_data.val) :
        /\ weather_data.val[i].country = arg_country
        /\ weather_data.val[i].date = D
        /\ weather_data.val[i].date[1] = 2023
        /\ \/ weather_data.val[i].condition \in {"hail", "thunderstorm", "blizzard", "hurricane"}
           \/ weather_data.val[i].max_temp > 400

Unexplained == {D \in Range(arg_poor) : ~Excused(D)}

EventDates(event_list) == {event_list[i].event_date : i \in 1..Len(event_list)}

WindowDays == << <<2023, 1, 1>>, <<2023, 3, 1>>, <<2023, 12, 31>> >>

WindowEvents ==
    SetToSeq({EventRow("US", run[i], "Fete") :
                run \in {r \in CalendarRuns : Len(r) = 5}, i \in 1..5}
             \cup {EventRow("TT", WindowDays[i], "Fete") : i \in 1..Len(WindowDays)})

InitWindow ==
    /\ Idle
    /\ pc = "call_dates"
    /\ attendance_data = <<>>
    /\ arg_country = "US"
    /\ arg_poor \in Picks(WindowDays, MaxRows)
    /\ weather_data \in {Bound(<<>>), Bound(<<WeatherRow("US", <<2023, 1, 1>>, "hurricane", 300)>>)}
    /\ events_data \in {Bound(e) : e \in Picks(WindowEvents, MaxEvents)}

SpecWindow == InitWindow /\ [][CallCheckDates]_vars

\* C2 as stated: every event of the employee's country dated D-1, D or D+1
\* of an unexplained delinquent date D is in the returned list, also when
\* D-1 falls in 2022 or D+1 in 2024.
WindowIgnoresYear ==
    \A c \in 1..Len(calls) : \A D \in Unexplained : \A i \in 1..Len(events_data.val) :
        (events_data.val[i].country = arg_country
            /\ Adjacent(events_data.val[i].event_date, D))
        => events_data.val[i].event_date \in EventDates(calls[c].value)

\* C2 amended: an event of the employee's country dated in 2023 on D-1, D or
\* D+1 of an unexplained delinquent date D is in the returned list; every
\* returned event is an event row of that country, dated in 2023, within one
\* day of some unexplained delinquent date (so D-2, D+2 and anything dated in
\* 2022 or 2024 are never matched).
WindowIsSymmetricWithin2023 ==
    \A c \in 1..Len(calls) :
        /\ \A D \in Unexplained : \A i \in 1..Len(events_data.val) :
             (events_data.val[i].country = arg_country
                 /\ events_data.val[i].event_date[1] = 2023
                 /\ Adjacent(events_data.val[i].event_date, D))
             => events_data.val[i].event_date \in EventDates(calls[c].value)
        /\ \A k \in 1..Len(calls[c].value) :
             /\ calls[c].value[k].country = arg_country
             /\ calls[c].value[k].event_date[1] = 2023
             /\ \E D \in Unexplained : Adjacent(calls[c].value[k].event_date, D)
             /\ \E i \in 1..Len(events_data.val) :
                  events_data.val[i] = EventRow(arg_country, calls[c].value[k].event_date,
                                                calls[c].value[k].event_name)

\* C2 witness: D = 2023-12-31 with events on D-1 and D+1 = 2024-01-01; only
\* the event of D-1 is returned.
WindowWitness ==
    /\ Len(calls) = 1
    /\ arg_poor = << <<2023, 12, 31>> >>
    /\ weather_data.val = <<>>
    /\ Range(events_data.val) = {EventRow("US", <<2023, 12, 30>>, "Fete"),
                                 EventRow("US", <<2024, 1, 1>>, "Fete")}
    /\ calls[1].value = <<EventRow("US", <<2023, 12, 30>>, "Fete")>>

WeatherDays == << <<2023, 7, 10>>, <<2023, 7, 20>> >>

WeatherPool ==
    SetToSeq({WeatherRow(c, d, k[1], k[2]) :
                c \in {"US", "TT"},
                d \in Range(WeatherDays),
                k \in {<<"hurricane", 300>>, <<"hail", 250>>, <<"sunny", 400>>, <<"sunny", 405>>}}
             \cup {WeatherRow("US", <<2022, 7, 10>>, "hurricane", 300)})

WeatherEvents ==
    <<EventRow("US", <<2023, 7, 10>>, "Regatta"), EventRow("US", <<2023, 7, 20>>, "Fete"),
      EventRow("TT", <<2023, 7, 10>>, "Carnival")>>

InitWeather ==
    /\ Idle
    /\ pc = "call_dates"
    /\ attendance_data = <<>>
    /\ arg_country \in {"US", "TT"}
    /\ arg_poor \in Picks(WeatherDays, MaxRows)
    /\ weather_data \in {Bound(w) : w \in Picks(WeatherPool, MaxWeather)}
    /\ events_data \in {Bound(e) : e \in Picks(WeatherEvents, MaxEvents)}

SpecWeather == InitWeather /\ [][CallCheckDates]_vars

\* C3: the dates used for event matching are exactly the delinquent dates
\* that are not the date of a weather row of the employee's country, dated
\* in 2023, with a severe condition or max_temp above 40.0; every returned
\* event lies within a day of such a date and every event of the country on
\* such a date is returned.
WeatherExclusionIsCountryScopedDifference ==
    \A c \in 1..Len(calls) :
        /\ calls[c].no_weather_excuse = Unexplained
        /\ \A k \in 1..Len(calls[c].value) :
             \E D \in Unexplained : Adjacent(calls[c].value[k].event_date, D)
        /\ \A D \in Unexplained : \A i \in 1..Len(events_data.val) :
             (events_data.val[i].country = arg_country /\ events_data.val[i].event_date = D)
             => D \in EventDates(calls[c].value)

\* C3 witness: two severe rows of the employee's country on the same
\* delinquent date remove it once; the other date, with a 40.0 degree row of
\* the country, stays and is matched.
WeatherWitness ==
    /\ Len(calls) = 1
    /\ arg_country = "US"
    /\ arg_poor = WeatherDays
    /\ Range(weather_data.val) = {WeatherRow("US", <<2023, 7, 10>>, "hurricane", 300),
                                  WeatherRow("US", <<2023, 7, 10>>, "sunny", 405)}
    /\ Range(events_data.val) = {EventRow("US", <<2023, 7, 10>>, "Regatta"),
                                 EventRow("US", <<2023, 7, 20>>, "Fete")}
    /\ calls[1].no_weather_excuse = {<<2023, 7, 20>>}
    /\ calls[1].value = <<EventRow("US", <<2023, 7, 20>>, "Fete")>>

DedupDays == << <<2023, 2, 28>>, <<2023, 3, 2>> >>

DedupEvents ==
    <<EventRow("US", <<2023, 3, 1>>, "Carnival"), EventRow("US", <<2023, 3, 1>>, "Parade"),
      EventRow("US", <<2023, 2, 27>>, "Regatta"), EventRow("US", <<2023, 3, 3>>, "Fete"),
      EventRow("TT", <<2023, 3, 1>>, "Carnival")>>

InitDedup ==
    /\ Idle
    /\ pc = "call_dates"
    /\ attendance_data = <<>>
    /\ arg_country = "US"
    /\ arg_poor \in Picks(DedupDays, MaxRows)
    /\ weather_data = Bound(<<>>)
    /\ events_data \in {Bound(e) : e \in Picks(DedupEvents, MaxEvents)}

SpecDedup == InitDedup /\ [][CallCheckDates]_vars

\* index of the first candidate with a given event_date
FirstIndex(event_list, date) ==
    CHOOSE i \in 1..Len(event_list) :
        /\ event_list[i].event_date = date
        /\ \A j \in 1..(i - 1) : event_list[j].event_date # date

\* within one execution: no two returned entries share an event_date, every
\* candidate event_date is returned, and the entry returned for a date is the
\* first candidate of that date, the entries keeping the candidates' order
KeepsFirstPerDate(execution) ==
    /\ \A j, k \in 1..Len(execution.value) :
         j # k => execution.value[j].event_date # execution.value[k].event_date
    /\ EventDates(execution.value) = EventDates(execution.event_reason_list)
    /\ \A k \in 1..Len(execution.value) :
         execution.value[k]
            = execution.event_reason_list[FirstIndex(execution.event_reason_list,
                                                     execution.value[k].event_date)]
    /\ \A j, k \in 1..Len(execution.value) :
         j < k => FirstIndex(execution.event_reason_list, execution.value[j].event_date)
                    < FirstIndex(execution.event_reason_list, execution.value[k].event_date)

\* C5 as stated: first-per-date deduplication, and on the same inputs the
\* event_name retained for an event_date is the same on every run.
DedupSameNameEveryRun ==
    /\ \A c \in 1..Len(calls) : KeepsFirstPerDate(calls[c])
    /\ \A c, d \in 1..Len(calls) :
         \A j \in 1..Len(calls[c].value) : \A k \in 1..Len(calls[d].value) :
            calls[c].value[j].event_date = calls[d].value[k].event_date
            => calls[c].value[j].event_name = calls[d].value[k].event_name

\* C5 amended: first-per-date deduplication in the order the candidates were
\* produced, and on the same inputs every run returns the same set of
\* event_dates (the retained event_name of a date with several names, and the
\* order of the list, follow the iteration order of the sets).
DedupKeepsFirstPerDate ==
    /\ \A c \in 1..Len(calls) : KeepsFirstPerDate(calls[c])
    /\ \A c, d \in 1..Len(calls) :
         EventDates(calls[c].value) = EventDates(calls[d].value)

\* C5 witness: two candidates share 2023-03-01 under different names; one
\* run kept "Carnival", another run on the same inputs kept "Parade".
DedupWitness ==
    /\ Len(calls) = 2
    /\ Len(calls[1].event_reason_list) = 2
    /\ calls[1].value = <<EventRow("US", <<2023, 3, 1>>, "Carnival")>>
    /\ calls[2].value = <<EventRow("US", <<2023, 3, 1>>, "Parade")>>

(***************************************************************************)
(* identify_delinquent_employees: one run of the report.                   *)
(***************************************************************************)
Employee(id, country) ==
    [record_id |-> id,
     name |-> <<"Ann", "Bob", "Cy">>[id],
     work_id_number |-> 100 + id,
     email_address |-> <<"ann@example.com", "bob@example.com", "cy@example.com">>[id],
     country |-> country,
     phone_number |-> 5550000 + id]

RosterPool == {Employee(1, "US"), Employee(2, "US"), Employee(3, "TT")}

\* the rosters of at most n employees: record_id is unique within a roster
Rosters(n) ==
    {roster \in Lists(RosterPool, n) :
        \A i, j \in 1..Len(roster) : roster[i].record_id = roster[j].record_id => i = j}

\* the sublists of a list, in list order
RECURSIVE Masked(_, _, _)
Masked(pool, mask, n) ==
    IF n = 0 THEN <<>>
    ELSE IF mask[n] THEN Append(Masked(pool, mask, n - 1), pool[n])
    ELSE Masked(pool, mask, n - 1)

Sublists(pool) == {Masked(pool, mask, Len(pool)) : mask \in [1..Len(pool) -> BOOLEAN]}

\* a late or early day and an absence for the first two employees, for the
\* first also a row with clock_out missing and a row of the year before; a
\* compliant day for the third
RunAttendancePool ==
    <<AttendanceRow(1, <<2023, 3, 1>>, <<9, 0, 0>>, <<16, 30, 0>>),
      AttendanceRow(1, <<2023, 12, 31>>, None, None),
      AttendanceRow(1, <<2023, 7, 10>>, <<8, 0, 0>>, None),
      AttendanceRow(1, <<2022, 12, 30>>, <<8, 0, 0>>, <<16, 0, 0>>),
      AttendanceRow(2, <<2023, 3, 1>>, <<8, 0, 0>>, <<15, 0, 0>>),
      AttendanceRow(2, <<2023, 12, 31>>, None, None),
      AttendanceRow(3, <<2023, 3, 1>>, <<8, 15, 0>>, <<16, 0, 0>>)>>

RunEventPool ==
    <<EventRow("US", <<2023, 2, 28>>, "Regatta"), EventRow("US", <<2023, 3, 1>>, "Carnival"),
      EventRow("US", <<2023, 3, 2>>, "Parade"), EventRow("US", <<2023, 12, 30>>, "Fete")>>

RunWeatherPool == <<WeatherRow("US", <<2023, 12, 31>>, "hurricane", 300)>>

\* the bodies the events endpoint may answer with: no event, or the pool
\* with at most one event missing
RunEventResponses == {e \in Sublists(RunEventPool) : Len(e) = 0 \/ Len(e) + 1 >= Len(RunEventPool)}

Init ==
    /\ pc = "fetch_weather"
    /\ weather_data = Unbound
    /\ events_data = Unbound
    /\ employee_data = <<>>
    /\ attendance_data = <<>>
    /\ idx = 1
    /\ wayward_employees = <<>>
    /\ exception = "none"
    /\ attempted = <<>>
    /\ weather_calls = 0
    /\ events_calls = 0
    /\ api_error_logged = FALSE
    /\ arg_country = "US"
    /\ arg_poor = <<>>
    /\ calls = <<>>

\* requests.get(weather_url), raise_for_status(), json(): a response body, or
\* a RequestException that leaves weather_data unbound
FetchWeather ==
    /\ pc = "fetch_weather"
    /\ weather_calls' = weather_calls + 1
    /\ \/ \E response \in Sublists(RunWeatherPool) :
            /\ weather_data' = Bound(response)
            /\ pc' = "fetch_events"
       \/ /\ pc' = "except"
          /\ UNCHANGED weather_data
    /\ UNCHANGED <<events_data, employee_data, attendance_data, idx, wayward_employees,
                   exception, attempted, events_calls, api_error_logged, arg_country,
                   arg_poor, calls>>

FetchEvents ==
    /\ pc = "fetch_events"
    /\ events_calls' = events_calls + 1
    /\ \/ \E response \in RunEventResponses :
            /\ events_data' = Bound(response)
            /\ pc' = "load"
       \/ /\ pc' = "except"
          /\ UNCHANGED events_data
    /\ UNCHANGED <<weather_data, employee_data, attendance_data, idx, wayward_employees,
                   exception, attempted, weather_calls, api_error_logged, arg_country,
                   arg_poor, calls>>

\* mutant of CatchApiError: the failed request is issued again
RetryAfterApiError ==
    /\ pc = "except"
    /\ api_error_logged' = TRUE
    /\ pc' = IF weather_data.bound THEN "fetch_events" ELSE "fetch_weather"
    /\ UNCHANGED <<weather_data, events_data, employee_data, attendance_data, idx,
                   wayward_employees, exception, attempted, weather_calls, events_calls,
                   arg_country, arg_poor, calls>>

\* except requests.exceptions.RequestException as e: print('API error: ', e)
CatchApiError ==
    /\ pc = "except"
    /\ api_error_logged' = TRUE
    /\ pc' = "load"
    /\ UNCHANGED <<weather_data, events_data, employee_data, attendance_data, idx,
                   wayward_employees, exception, attempted, weather_calls, events_calls,
                   arg_country, arg_poor, calls>>

\* the two json.load calls; an unreadable file ends the run
LoadFiles ==
    /\ pc = "load"
    /\ \/ \E roster \in Rosters(MaxRoster), rows \in Sublists(RunAttendancePool) :
            /\ employee_data' = roster
            /\ attendance_data' = rows
            /\ pc' = "loop"
            /\ UNCHANGED exception
       \/ /\ pc' = "crashed"
          /\ exception' = "OSError"
          /\ UNCHANGED <<employee_data, attendance_data>>
    /\ UNCHANGED <<weather_data, events_data, idx, wayward_employees, attempted,
                   weather_calls, events_calls, api_error_logged, arg_country, arg_poor, calls>>

EventThreshold == 3

\* mutant of Qualifies: three events are enough
QualifiesFromThree(events_cross_reference) == Len(events_cross_reference) >= EventThreshold

\* if len(events_cross_reference) > 3
Qualifies(events_cross_reference) == Len(events_cross_reference) > EventThreshold

employee_information(employee, average_hours_worked_per_week, events_cross_reference) ==
    [record_id |-> employee.record_id,
     name |-> employee.name,
     work_id_number |-> employee.work_id_number,
     email_address |-> employee.email_address,
     country |-> employee.country,
     phone_number |-> employee.phone_number,
     average_hours_per_week |-> average_hours_worked_per_week,
     events |-> events_cross_reference]

\* The outcomes of one iteration of the for loop: the exception it raises,
\* or the list wayward_employees after it.
LoopBody(employee, wayward) ==
    LET employee_attendance_data ==
            get_employee_attendance_data(employee.record_id, attendance_data, TargetYear)
        poor_employee_attendance_data == check_employee_times(employee_attendance_data)
        average_hours_worked_per_week ==
            calculate_average_hours_per_week(employee_attendance_data)
    IN  IF poor_employee_attendance_data.exc # "none"
        THEN {Raised(poor_employee_attendance_data.exc)}
        ELSE IF ~weather_data.bound \/ ~events_data.bound
        THEN {Raised("UnboundLocalError")}
        ELSE IF average_hours_worked_per_week.exc # "none"
        THEN {Raised(average_hours_worked_per_week.exc)}
        ELSE {Returned(IF Qualifies(execution.value)
                       THEN Append(wayward,
                                employee_information(employee,
                                    average_hours_worked_per_week.value, execution.value))
                       ELSE wayward) :
                execution \in check_dates_against_events(weather_data.val, events_data.val,
                                  poor_employee_attendance_data.value, employee.country)}

ProcessEmployee ==
    /\ pc = "loop"
    /\ idx <= Len(employee_data)
    /\ attempted' = Append(attempted, idx)
    /\ \E outcome \in LoopBody(employee_data[idx], wayward_employees) :
          IF outcome.exc = "none"
          THEN /\ wayward_employees' = outcome.value
               /\ idx' = idx + 1
               /\ UNCHANGED <<pc, exception>>
          ELSE /\ pc' = "crashed"
               /\ exception' = outcome.exc
               /\ UNCHANGED <<wayward_employees, idx>>
    /\ UNCHANGED <<weather_data, events_data, employee_data, attendance_data,
                   weather_calls, events_calls, api_error_logged, arg_country, arg_poor, calls>>

\* return wayward_employees
Return ==
    /\ pc = "loop"
    /\ idx > Len(employee_data)
    /\ pc' = "done"
    /\ UNCHANGED <<weather_data, events_data, employee_data, attendance_data, idx,
                   wayward_employees, exception, attempted, weather_calls, events_calls,
                   api_error_logged, arg_country, arg_poor, calls>>

Next == FetchWeather \/ FetchEvents \/ CatchApiError \/ LoadFiles \/ ProcessEmployee \/ Return

Spec == Init /\ [][Next]_vars

\* the event dates the report policy attributes to an employee: dates of
\* events of the employee's country in 2023 within a day of a delinquent
\* 2023 day of the employee that no severe weather of that country excuses
ExcusedIn(country, D) ==
    \E i \in 1..Len(weather_data.val) :
        /\ weather_data.val[i].country = country
        /\ weather_data.val[i].date = D
        /\ \/ weather_data.val[i].condition \in {"hail", "thunderstorm", "blizzard", "hurricane"}
           \/ weather_data.val[i].max_temp > 400

QualifyingDates(employee) ==
    {events_data.val[i].event_date : i \in
        {j \in 1..Len(events_data.val) :
            /\ events_data.val[j].country = employee.country
            /\ events_data.val[j].event_date[1] = 2023
            /\ \E r \in 1..Len(attendance_data) :
                 /\ attendance_data[r].employee_record_id = employee.record_id
                 /\ attendance_data[r].date[1] = 2023
                 /\ \/ Absent(attendance_data[r])
                    \/ Late(attendance_data[r])
                    \/ Early(attendance_data[r])
                 /\ ~ExcusedIn(employee.country, attendance_data[r].date)
                 /\ Adjacent(events_data.val[j].event_date, attendance_data[r].date)}}

\* the roster positions up to n whose employee has more than 3 qualifying dates
RECURSIVE FlaggedUpTo(_)
FlaggedUpTo(n) ==
    IF n = 0 THEN <<>>
    ELSE IF Cardinality(QualifyingDates(employee_data[n])) > 3
    THEN Append(FlaggedUpTo(n - 1), n)
    ELSE FlaggedUpTo(n - 1)

RowsOf(employee) ==
    {r \in 1..Len(attendance_data) :
        /\ attendance_data[r].employee_record_id = employee.record_id
        /\ attendance_data[r].date[1] = 2023}

\* C6: an employee without attendance rows in 2023 does not make the run
\* fail: the average-hours computation raises no ZeroDivisionError.
NoCrashOnZeroAttendanceRows ==
    ~(/\ pc = "crashed"
      /\ exception = "ZeroDivisionError"
      /\ RowsOf(employee_data[idx]) = {})

\* C7: when the run has ended, by return or by an exception of one
\* employee's computation, every roster entry has been attempted.
EveryEmployeeAttempted ==
    (pc \in {"done", "crashed"} /\ exception # "OSError")
        => Len(attempted) = Len(employee_data)

\* C9: each endpoint is requested at most once, events only after weather
\* has answered, both before any roster entry is handled; a failed request
\* is not repeated, is logged by the except clause and never ends the run:
\* the run goes on to load the files and enters the loop, where the first
\* roster entry finds the data set unbound (with an empty roster the run
\* returns the empty list).
FetchOnceThenProceed ==
    /\ weather_calls <= 1
    /\ events_calls <= 1
    /\ events_calls = 1 => (weather_calls = 1 /\ weather_data.bound)
    /\ events_data.bound => events_calls = 1
    /\ attempted # <<>> => (pc \in {"loop", "done", "crashed"} /\ weather_calls = 1)
    /\ pc \in {"load", "loop", "done", "crashed"} =>
         /\ api_error_logged <=> (~weather_data.bound \/ ~events_data.bound)
         /\ weather_data.bound <=> events_calls = 1
    /\ pc = "crashed" =>
         /\ exception \in {"OSError", "TypeError", "UnboundLocalError", "ZeroDivisionError"}
         /\ exception # "OSError" => (employee_data # <<>> /\ attempted # <<>>)
    /\ exception = "UnboundLocalError" => (api_error_logged /\ attempted = <<1>>)
    /\ (api_error_logged /\ pc = "done") => (employee_data = <<>> /\ wayward_employees = <<>>)

\* C9 witness: weather answered, the events request failed once and was
\* logged, the files were loaded and the first roster entry was entered.
FetchWitness ==
    /\ pc = "crashed"
    /\ exception = "UnboundLocalError"
    /\ weather_data.bound
    /\ ~events_data.bound
    /\ weather_calls = 1
    /\ events_calls = 1
    /\ api_error_logged
    /\ attempted = <<1>>

(***************************************************************************)
(* AttendanceReport_alternate.py: the pipeline on data frames.  A data     *)
(* frame is the list of its rows.  Python values of different types are    *)
(* told apart where the code mixes them: a str date and a Timestamp of the *)
(* same day are different set elements.                                    *)
(***************************************************************************)
PyStr(date) == [type |-> "str", day |-> date]

PyTimestamp(date) == [type |-> "Timestamp", day |-> date]

\* Timestamp.strftime('%Y.%m.%d')
DottedDate(date) == [format |-> "%Y.%m.%d", day |-> date]

alt_get_employee_attendance_data(df, record_id, year) ==
    SelectSeq(df, LAMBDA row : row.employee_record_id = record_id /\ row.date[1] = year)

\* comparisons with a missing clock time are False; concat keeps the late or
\* early rows first, then the rows with a missing time
alt_check_employee_times(df) ==
    SelectSeq(df, LAMBDA row :
        \/ (row.clock_in # None /\ TimeLess(StartTime, row.clock_in))
        \/ (row.clock_out # None /\ TimeLess(row.clock_out, EndTime)))
    \o SelectSeq(df, LAMBDA row : row.clock_in = None \/ row.clock_out = None)

\* filtered_weather_df: no year filter, and the date column is left as str
alt_filtered_weather(weather_df, country) ==
    SelectSeq(weather_df, LAMBDA w :
        w.country = country /\ (w.condition \in SevereConditions \/ w.max_temp > MaxTempLimit))

\* set(attendance_df['date']).intersection(set(filtered_weather_df['date'])):
\* the attendance dates are Timestamps, the weather dates are str
alt_common_dates(weather_df, attendance_df, country) ==
    {PyTimestamp(attendance_df[i].date) : i \in 1..Len(attendance_df)}
        \cap {PyStr(w.date) : w \in Range(alt_filtered_weather(weather_df, country))}

alt_filtered_events(events_df, country) ==
    SelectSeq(events_df, LAMBDA e : e.country = country /\ e.event_date[1] = 2023)

\* event_reason: the filtered events within date_range(D - 1, D + 1)
alt_event_reason(filtered_events_df, attendance_date, country) ==
    LET event_reason ==
            SelectSeq(filtered_events_df, LAMBDA e :
                ToOrdinal(e.event_date) \in
                    (ToOrdinal(attendance_date) - 1)..(ToOrdinal(attendance_date) + 1))
    IN  [i \in 1..Len(event_reason) |->
            [event_date |-> DottedDate(event_reason[i].event_date),
             event_name |-> event_reason[i].event_name,
             country |-> country]]

RECURSIVE alt_event_info(_, _, _)
alt_event_info(attendance_df, filtered_events_df, country) ==
    IF Len(attendance_df) = 0 THEN <<>>
    ELSE alt_event_reason(filtered_events_df, Head(attendance_df).date, country)
            \o alt_event_info(Tail(attendance_df), filtered_events_df, country)

alt_check_dates_against_events(weather_df, events_df, attendance_df, country) ==
    LET common_dates == alt_common_dates(weather_df, attendance_df, country)
        remaining == SelectSeq(attendance_df, LAMBDA row : PyTimestamp(row.date) \notin common_dates)
    IN  remove_duplicate_events(
            alt_event_info(remaining, alt_filtered_events(events_df, country), country))

\* weekly_hours.mean(): NaN for an empty frame
alt_calculate_average_hours_per_week(attendance_df) ==
    LET weekly_hours == WeeklyTotals(attendance_df, <<>>)
    IN  IF DOMAIN weekly_hours = {} THEN [num |-> 0, den |-> 0]
        ELSE Quotient(SumValues(weekly_hours, DOMAIN weekly_hours),
                      Cardinality(DOMAIN weekly_hours))

\* the for loop of analyze_data over the first n roster entries
RECURSIVE analyze_data(_, _, _, _, _)
analyze_data(employees, attendance_df, weather_df, events_df, n) ==
    IF n = 0 THEN <<>>
    ELSE LET before == analyze_data(employees, attendance_df, weather_df, events_df, n - 1)
             employee == employees[n]
             emp_attendance_df ==
                 alt_get_employee_attendance_data(attendance_df, employee.record_id, 2023)
             events_cross_reference ==
                 alt_check_dates_against_events(weather_df, events_df,
                     alt_check_employee_times(emp_attendance_df), employee.country)
         IN  IF Len(events_cross_reference) > 3
             THEN Append(before,
                      employee_information(employee,
                          alt_calculate_average_hours_per_week(emp_attendance_df),
                          events_cross_reference))
             ELSE before

\* the outcomes of the for loop of identify_delinquent_employees from roster
\* entry i on, given the list built so far
RECURSIVE identify_delinquent_employees(_, _)
identify_delinquent_employees(i, wayward) ==
    IF i > Len(employee_data) THEN {Returned(wayward)}
    ELSE UNION {IF outcome.exc = "none"
                THEN identify_delinquent_employees(i + 1, outcome.value)
                ELSE {outcome} :
                    outcome \in LoopBody(employee_data[i], wayward)}

(***************************************************************************)
(* Both programs run on the same files and the same responses.             *)
(***************************************************************************)
EquivAttendancePool ==
    <<AttendanceRow(1, <<2023, 3, 1>>, <<9, 0, 0>>, <<16, 30, 0>>),
      AttendanceRow(1, <<2023, 12, 31>>, None, None),
      AttendanceRow(2, <<2023, 3, 1>>, <<8, 0, 0>>, <<16, 0, 0>>),
      AttendanceRow(2, <<2023, 12, 31>>, <<8, 0, 0>>, <<15, 0, 0>>)>>

EquivWeatherPool ==
    <<WeatherRow("US", <<2023, 12, 31>>, "hurricane", 300),
      WeatherRow("TT", <<2023, 12, 31>>, "hurricane", 300)>>

InitEquiv ==
    /\ pc = "compare"
    /\ weather_data \in {Bound(w) : w \in Sublists(EquivWeatherPool)}
    /\ events_data \in {Bound(e) : e \in Sublists(RunEventPool)}
    /\ employee_data \in Rosters(MaxRoster)
    /\ attendance_data \in Sublists(EquivAttendancePool)
    /\ idx = 1
    /\ wayward_employees = <<>>
    /\ exception = "none"
    /\ attempted = <<>>
    /\ weather_calls = 0
    /\ events_calls = 0
    /\ api_error_logged = FALSE
    /\ arg_country = "US"
    /\ arg_poor = <<>>
    /\ calls = <<>>

Ran(program) == \E c \in 1..Len(calls) : calls[c].program = program

RunHandRolled ==
    /\ pc = "compare"
    /\ ~Ran("identify_delinquent_employees")
    /\ \E outcome \in identify_delinquent_employees(1, <<>>) :
          calls' = Append(calls, [program |-> "identify_delinquent_employees",
                                  exc |-> outcome.exc, value |-> outcome.value])
    /\ UNCHANGED <<pc, weather_data, events_data, employee_data, attendance_data, idx,
                   wayward_employees, exception, attempted, weather_calls, events_calls,
                   api_error_logged, arg_country, arg_poor>>

RunTabular ==
    /\ pc = "compare"
    /\ ~Ran("analyze_data")
    /\ calls' = Append(calls,
                    [program |-> "analyze_data", exc |-> "none",
                     value |-> analyze_data(employee_data, attendance_data, weather_data.val,
                                            events_data.val, Len(employee_data))])
    /\ UNCHANGED <<pc, weather_data, events_data, employee_data, attendance_data, idx,
                   wayward_employees, exception, attempted, weather_calls, events_calls,
                   api_error_logged, arg_country, arg_poor>>

NextEquiv == RunHandRolled \/ RunTabular

SpecEquiv == InitEquiv /\ [][NextEquiv]_vars

\* the calendar days of an event list of identify_delinquent_employees
\* ("YYYY-MM-DD") and of one of analyze_data ("YYYY.MM.DD")
DashedDays(events) == {events[j].event_date : j \in 1..Len(events)}

DottedDays(events) == {events[j].event_date.day : j \in 1..Len(events)}

\* C10: when both programs return on the same inputs (every row having both
\* times or neither), they flag the same employees in the same order and
\* report for each the same set of event days.
SameReportFromBothPrograms ==
    \A c, d \in 1..Len(calls) :
        (/\ calls[c].program = "identify_delinquent_employees"
         /\ calls[d].program = "analyze_data"
         /\ calls[c].exc = "none")
        => /\ Len(calls[c].value) = Len(calls[d].value)
           /\ \A k \in 1..Len(calls[c].value) :
                /\ k <= Len(calls[d].value)
                /\ calls[c].value[k].record_id = calls[d].value[k].record_id
                /\ DashedDays(calls[c].value[k].events) = DottedDays(calls[d].value[k].events)

====
